---- MODULE Spec2Model ----
(***************************************************************************)
(* Model of fetch-expresso's ResAccumulator (src/src/ResponseAccumulator.ts)*)
(* over the WHATWG Headers and Response objects it is built on, and of its *)
(* RequestLike (src/src/RequestLike.ts) and Context over the WHATWG        *)
(* Request, URL and URLSearchParams objects.                               *)
(*                                                                         *)
(* Strings are sequences of character codes, so that the conversions the   *)
(* platform applies to them (case folding of header names, normalisation   *)
(* of header values, JSON serialisation) are computed and not assumed.     *)
(* Objects that the code shares by reference (Headers collections, stream  *)
(* handles) are identifiers into a heap.                                   *)
(***************************************************************************)
EXTENDS Integers, Sequences, FiniteSets, TLC

VARIABLES res, heap, handed, responses, call, nops, ctx, objs, got

vars == <<res, heap, handed, responses, call, nops, ctx, objs, got>>

\* The request side: the contexts created, the heap of params objects, and
\* the value the most recent read returned.
reqVars == <<ctx, objs, got>>

(***************************************************************************)
(* Bounds of the model.                                                    *)
(***************************************************************************)
NumBuilders == 2
MaxOps == 3
MaxClones == 1

Builders == 1..NumBuilders

(***************************************************************************)
(* Character data.                                                         *)
(***************************************************************************)
S_XA == <<88, 45, 65>>
S_xa == <<120, 45, 97>>
S_ContentType == <<67, 111, 110, 116, 101, 110, 116, 45, 84, 121, 112, 101>>
S_contenttype == <<99, 111, 110, 116, 101, 110, 116, 45, 116, 121, 112, 101>>
S_Location == <<76, 111, 99, 97, 116, 105, 111, 110>>
S_location == <<108, 111, 99, 97, 116, 105, 111, 110>>
S_badname == <<98, 97, 100, 32, 110>>
S_applicationjson == <<97, 112, 112, 108, 105, 99, 97, 116, 105, 111, 110, 47, 106, 115, 111, 110>>
S_textplain == <<116, 101, 120, 116, 47, 112, 108, 97, 105, 110, 59, 99, 104, 97, 114, 115, 101, 116, 61, 85, 84, 70, 45, 56>>
S_v == <<118>>
S_w_padded == <<32, 119, 9>>
S_w == <<119>>
S_a_nl_b == <<97, 10, 98>>
S_url == <<47, 110>>
S_url_padded == <<32, 47, 110, 32>>
S_url_nl == <<47, 10, 110>>
S_Test == <<84, 101, 115, 116>>

\* The inputs the operations are called with.
HeaderNames == {S_XA, S_xa, S_ContentType, S_contenttype, S_Location, S_badname}
HeaderValues == {S_v, S_w_padded, S_a_nl_b}
\* The (name, value) arguments of set, and of set and append on a returned
\* collection; the names of delete.
SetArgs ==
    { <<S_XA, S_v>>, <<S_xa, S_w_padded>>, <<S_contenttype, S_v>>,
      <<S_location, S_v>>, <<S_Location, S_w_padded>>, <<S_badname, S_v>>,
      <<S_XA, S_a_nl_b>> }
ReturnedArgs == { <<S_xa, S_w_padded>>, <<S_ContentType, S_v>>, <<S_badname, S_v>> }
DeleteArgs == {S_xa, S_contenttype, S_badname}
StatusCodes == {201, 204, 99}
RedirectCodes == {308}
Urls == {S_url, S_url_padded, S_url_nl}
StreamHandles == {1, 2}
HeaderMaps ==
    { <<>>,
      << <<S_XA, S_v>>, <<S_xa, S_w_padded>> >>,
      << <<S_XA, S_v>>, <<S_badname, S_v>> >>,
      << <<S_contenttype, S_v>>, <<S_XA, S_a_nl_b>> >> }

(***************************************************************************)
(* The Headers collection (WHATWG fetch, as used through new Headers(),    *)
(* set, get, append, delete).  A collection is a function from lower-cased *)
(* header names to values.                                                 *)
(***************************************************************************)
Lower(c) == IF c \in 65..90 THEN c + 32 ELSE c

toLowerCase(s) == [i \in 1..Len(s) |-> Lower(s[i])]

TokenChar(c) ==
    \/ c \in 48..57
    \/ c \in 65..90
    \/ c \in 97..122
    \/ c \in {33, 35, 36, 37, 38, 39, 42, 43, 45, 46, 94, 95, 96, 124, 126}

isValidHeaderName(s) == Len(s) > 0 /\ \A i \in 1..Len(s) : TokenChar(s[i])

HttpWhitespace == {9, 10, 13, 32}

RECURSIVE StripLeft(_)
StripLeft(s) ==
    IF Len(s) > 0 /\ s[1] \in HttpWhitespace THEN StripLeft(Tail(s)) ELSE s

RECURSIVE StripRight(_)
StripRight(s) ==
    IF Len(s) > 0 /\ s[Len(s)] \in HttpWhitespace
    THEN StripRight(SubSeq(s, 1, Len(s) - 1))
    ELSE s

headerValueNormalize(s) == StripRight(StripLeft(s))

isValidHeaderValue(s) == \A i \in 1..Len(s) : s[i] \notin {0, 10, 13}

EmptyHeaders == [n \in {} |-> <<>>]

\* Headers.prototype.set: [threw, h]
HeadersSet(h, name, value) ==
    LET v == headerValueNormalize(value)
        k == toLowerCase(name)
    IN  IF ~isValidHeaderName(name) \/ ~isValidHeaderValue(v)
        THEN [threw |-> TRUE, h |-> h]
        ELSE [threw |-> FALSE,
              h |-> [n \in DOMAIN h \cup {k} |-> IF n = k THEN v ELSE h[n]]]

\* Headers.prototype.append: a second value is joined with ", ".
HeadersAppend(h, name, value) ==
    LET v == headerValueNormalize(value)
        k == toLowerCase(name)
    IN  IF ~isValidHeaderName(name) \/ ~isValidHeaderValue(v)
        THEN [threw |-> TRUE, h |-> h]
        ELSE [threw |-> FALSE,
              h |-> [n \in DOMAIN h \cup {k} |->
                        IF n # k THEN h[n]
                        ELSE IF k \in DOMAIN h THEN h[k] \o <<44, 32>> \o v
                        ELSE v]]

\* Headers.prototype.delete
HeadersDelete(h, name) ==
    LET k == toLowerCase(name)
    IN  IF ~isValidHeaderName(name)
        THEN [threw |-> TRUE, h |-> h]
        ELSE [threw |-> FALSE, h |-> [n \in DOMAIN h \ {k} |-> h[n]]]

\* Headers.prototype.get: [threw, null, value]
HeadersGet(h, name) ==
    LET k == toLowerCase(name)
    IN  IF ~isValidHeaderName(name)
        THEN [threw |-> TRUE, null |-> TRUE, value |-> <<>>]
        ELSE IF k \in DOMAIN h
        THEN [threw |-> FALSE, null |-> FALSE, value |-> h[k]]
        ELSE [threw |-> FALSE, null |-> TRUE, value |-> <<>>]

(***************************************************************************)
(* UTF-8, applied by the Response constructor to a text body and undone by *)
(* Response.prototype.json/text.  Code points below 0x800 are modelled.    *)
(***************************************************************************)
RECURSIVE UTF8Encode(_)
UTF8Encode(s) ==
    IF s = <<>> THEN <<>>
    ELSE IF s[1] < 128 THEN <<s[1]>> \o UTF8Encode(Tail(s))
    ELSE <<192 + (s[1] \div 64), 128 + (s[1] % 64)>> \o UTF8Encode(Tail(s))

RECURSIVE UTF8Decode(_)
UTF8Decode(bs) ==
    IF bs = <<>> THEN <<>>
    ELSE IF bs[1] < 128 THEN <<bs[1]>> \o UTF8Decode(Tail(bs))
    ELSE IF bs[1] \in 192..223 /\ Len(bs) >= 2 /\ bs[2] \in 128..191
    THEN <<(bs[1] - 192) * 64 + (bs[2] - 128)>> \o UTF8Decode(Tail(Tail(bs)))
    ELSE <<65533>> \o UTF8Decode(Tail(bs))

(***************************************************************************)
(* JavaScript values handed to json(data), and JSON.stringify/JSON.parse   *)
(* (ECMAScript SerializeJSONProperty, QuoteJSONString and the JSON         *)
(* grammar; stringify is called without indent, so no whitespace occurs    *)
(* between tokens).                                                        *)
(***************************************************************************)
JVal(t, b, n, s, items, members) ==
    [t |-> t, b |-> b, n |-> n, s |-> s, items |-> items, members |-> members]

JUndefined == JVal("undefined", FALSE, 0, <<>>, <<>>, <<>>)
JNull == JVal("null", FALSE, 0, <<>>, <<>>, <<>>)
JNaN == JVal("nan", FALSE, 0, <<>>, <<>>, <<>>)
JNegZero == JVal("negzero", FALSE, 0, <<>>, <<>>, <<>>)
JBool(b) == JVal("boolean", b, 0, <<>>, <<>>, <<>>)
JNum(n) == JVal("number", FALSE, n, <<>>, <<>>, <<>>)
JBigInt(n) == JVal("bigint", FALSE, n, <<>>, <<>>, <<>>)
JStr(s) == JVal("string", FALSE, 0, s, <<>>, <<>>)
JArr(items) == JVal("array", FALSE, 0, <<>>, items, <<>>)
JObj(members) == JVal("object", FALSE, 0, <<>>, <<>>, members)
Member(k, v) == [key |-> k, val |-> v]

RECURSIVE Digits(_)
Digits(n) ==
    IF n < 10 THEN <<48 + n>> ELSE Digits(n \div 10) \o <<48 + (n % 10)>>

NumberToString(n) == IF n < 0 THEN <<45>> \o Digits(0 - n) ELSE Digits(n)

RECURSIVE QuoteChars(_)
QuoteChars(s) ==
    IF s = <<>> THEN <<>>
    ELSE (CASE s[1] = 34 -> <<92, 34>>
            [] s[1] = 92 -> <<92, 92>>
            [] s[1] = 10 -> <<92, 110>>
            [] s[1] = 9 -> <<92, 116>>
            [] OTHER -> <<s[1]>>) \o QuoteChars(Tail(s))

QuoteJSONString(s) == <<34>> \o QuoteChars(s) \o <<34>>

\* SerializeJSONProperty: [threw, undef, text]
SerOk(text) == [threw |-> FALSE, undef |-> FALSE, text |-> text]
SerUndefined == [threw |-> FALSE, undef |-> TRUE, text |-> <<>>]
SerThrow == [threw |-> TRUE, undef |-> FALSE, text |-> <<>>]

RECURSIVE SerializeJSONProperty(_)
RECURSIVE SerializeJSONArray(_, _)
RECURSIVE SerializeJSONObject(_, _)

SerializeJSONProperty(d) ==
    CASE d.t = "undefined" -> SerUndefined
      [] d.t = "null" -> SerOk(<<110, 117, 108, 108>>)
      [] d.t = "nan" -> SerOk(<<110, 117, 108, 108>>)
      [] d.t = "negzero" -> SerOk(<<48>>)
      [] d.t = "boolean" ->
            SerOk(IF d.b THEN <<116, 114, 117, 101>> ELSE <<102, 97, 108, 115, 101>>)
      [] d.t = "number" -> SerOk(NumberToString(d.n))
      [] d.t = "bigint" -> SerThrow
      [] d.t = "string" -> SerOk(QuoteJSONString(d.s))
      [] d.t = "array" ->
            LET r == SerializeJSONArray(d.items, <<>>)
            IN  IF r.threw THEN SerThrow ELSE SerOk(<<91>> \o r.text \o <<93>>)
      [] d.t = "object" ->
            LET r == SerializeJSONObject(d.members, <<>>)
            IN  IF r.threw THEN SerThrow ELSE SerOk(<<123>> \o r.text \o <<125>>)

\* An element that serialises to undefined is written as null.
SerializeJSONArray(items, acc) ==
    IF items = <<>> THEN SerOk(acc)
    ELSE LET r == SerializeJSONProperty(items[1])
             sep == IF acc = <<>> THEN <<>> ELSE <<44>>
         IN  IF r.threw THEN SerThrow
             ELSE SerializeJSONArray(Tail(items),
                    acc \o sep \o (IF r.undef THEN <<110, 117, 108, 108>> ELSE r.text))

\* A property whose value serialises to undefined is left out.
SerializeJSONObject(members, acc) ==
    IF members = <<>> THEN SerOk(acc)
    ELSE LET r == SerializeJSONProperty(members[1].val)
             sep == IF acc = <<>> THEN <<>> ELSE <<44>>
         IN  IF r.threw THEN SerThrow
             ELSE IF r.undef THEN SerializeJSONObject(Tail(members), acc)
             ELSE SerializeJSONObject(Tail(members),
                    acc \o sep \o QuoteJSONString(members[1].key) \o <<58>> \o r.text)

JSONStringify(d) == SerializeJSONProperty(d)

\* JSON.parse: [ok, val, rest]
ParseFail == [ok |-> FALSE, val |-> JNull, rest |-> <<>>]
ParseOk(v, rest) == [ok |-> TRUE, val |-> v, rest |-> rest]

HasPrefix(s, p) == Len(s) >= Len(p) /\ SubSeq(s, 1, Len(p)) = p
Drop(s, k) == SubSeq(s, k + 1, Len(s))

\* The characters of a string literal after its opening quote.
RECURSIVE ParseString(_, _)
ParseString(s, acc) ==
    IF s = <<>> THEN ParseFail
    ELSE IF s[1] = 34 THEN ParseOk(JStr(acc), Tail(s))
    ELSE IF s[1] = 92
    THEN IF Len(s) < 2 THEN ParseFail
         ELSE IF s[2] \in {34, 92, 47} THEN ParseString(Drop(s, 2), acc \o <<s[2]>>)
         ELSE IF s[2] = 110 THEN ParseString(Drop(s, 2), acc \o <<10>>)
         ELSE IF s[2] = 116 THEN ParseString(Drop(s, 2), acc \o <<9>>)
         ELSE ParseFail
    ELSE IF s[1] < 32 THEN ParseFail
    ELSE ParseString(Tail(s), acc \o <<s[1]>>)

RECURSIVE ParseDigits(_, _)
ParseDigits(s, n) ==
    IF s # <<>> /\ s[1] \in 48..57
    THEN ParseDigits(Tail(s), 10 * n + (s[1] - 48))
    ELSE [n |-> n, rest |-> s]

ParseNumber(s) ==
    LET neg == s[1] = 45
        t == IF neg THEN Tail(s) ELSE s
    IN  IF t = <<>> \/ t[1] \notin 48..57 THEN ParseFail
        ELSE LET r == ParseDigits(t, 0)
             IN  ParseOk(JNum(IF neg THEN 0 - r.n ELSE r.n), r.rest)

RECURSIVE ParseValue(_)
RECURSIVE ParseElements(_, _)
RECURSIVE ParseMembers(_, _)

ParseValue(s) ==
    IF s = <<>> THEN ParseFail
    ELSE IF HasPrefix(s, <<110, 117, 108, 108>>) THEN ParseOk(JNull, Drop(s, 4))
    ELSE IF HasPrefix(s, <<116, 114, 117, 101>>) THEN ParseOk(JBool(TRUE), Drop(s, 4))
    ELSE IF HasPrefix(s, <<102, 97, 108, 115, 101>>) THEN ParseOk(JBool(FALSE), Drop(s, 5))
    ELSE IF s[1] = 34 THEN ParseString(Tail(s), <<>>)
    ELSE IF s[1] = 45 \/ s[1] \in 48..57 THEN ParseNumber(s)
    ELSE IF s[1] = 91
    THEN IF Len(s) >= 2 /\ s[2] = 93 THEN ParseOk(JArr(<<>>), Drop(s, 2))
         ELSE ParseElements(Tail(s), <<>>)
    ELSE IF s[1] = 123
    THEN IF Len(s) >= 2 /\ s[2] = 125 THEN ParseOk(JObj(<<>>), Drop(s, 2))
         ELSE ParseMembers(Tail(s), <<>>)
    ELSE ParseFail

ParseElements(s, acc) ==
    LET r == ParseValue(s)
    IN  IF ~r.ok \/ r.rest = <<>> THEN ParseFail
        ELSE IF r.rest[1] = 44 THEN ParseElements(Tail(r.rest), Append(acc, r.val))
        ELSE IF r.rest[1] = 93 THEN ParseOk(JArr(Append(acc, r.val)), Tail(r.rest))
        ELSE ParseFail

ParseMembers(s, acc) ==
    IF s = <<>> \/ s[1] # 34 THEN ParseFail
    ELSE LET k == ParseString(Tail(s), <<>>)
         IN  IF ~k.ok \/ k.rest = <<>> \/ k.rest[1] # 58 THEN ParseFail
             ELSE LET r == ParseValue(Tail(k.rest))
                      m == Member(k.val.s, r.val)
                  IN  IF ~r.ok \/ r.rest = <<>> THEN ParseFail
                      ELSE IF r.rest[1] = 44
                      THEN ParseMembers(Tail(r.rest), Append(acc, m))
                      ELSE IF r.rest[1] = 125
                      THEN ParseOk(JObj(Append(acc, m)), Tail(r.rest))
                      ELSE ParseFail

\* JSON.parse accepts a text that is one value and nothing else.
JSONParse(s) ==
    LET r == ParseValue(s)
    IN  IF r.ok /\ r.rest = <<>> THEN [ok |-> TRUE, val |-> r.val]
        ELSE [ok |-> FALSE, val |-> JNull]

\* Response.prototype.json of a response body: decode the bytes, then parse.
ResponseJson(body) == JSONParse(UTF8Decode(body.bytes))

S_k == <<107>>
S_u == <<117>>
S_quoted == <<97, 34, 233, 92>>

JsonData ==
    { JUndefined, JNull, JNaN, JNegZero, JBool(TRUE), JNum(-30),
      JBigInt(1), JStr(S_quoted),
      JArr(<<JNum(7), JStr(S_v)>>),
      JArr(<<JNum(1), JUndefined>>),
      JObj(<<Member(S_k, JNull), Member(S_u, JArr(<<JBool(FALSE)>>))>>),
      JObj(<<Member(S_k, JUndefined)>>) }

(***************************************************************************)
(* Bodies.  A BodyInit is undefined, a text, or a ReadableStream handle.   *)
(* The body of a Response is null or a stream: the very stream it was      *)
(* given, or a new stream over the bytes of the text.                      *)
(***************************************************************************)
Undefined == [kind |-> "undefined", text |-> <<>>, ref |-> 0]
TextBody(s) == [kind |-> "text", text |-> s, ref |-> 0]
StreamBody(id) == [kind |-> "stream", text |-> <<>>, ref |-> id]

NullBody == [null |-> TRUE, stream |-> 0, bytes |-> <<>>, type |-> <<>>]

\* extractBody of the fetch implementation: fresh is the identity of a
\* stream object that does not exist yet.
extractBody(body, fresh) ==
    CASE body.kind = "undefined" -> NullBody
      [] body.kind = "text" ->
            [null |-> FALSE, stream |-> fresh, bytes |-> UTF8Encode(body.text),
             type |-> S_textplain]
      [] body.kind = "stream" ->
            [null |-> FALSE, stream |-> body.ref, bytes |-> <<>>, type |-> <<>>]

NullBodyStatus == {101, 103, 204, 205, 304}

NoResponse == [status |-> 0, headers |-> EmptyHeaders, body |-> NullBody]

\* new Response(body, {status, headers}): [threw, err, response]
NewResponse(body, status, h, fresh) ==
    LET b == extractBody(body, fresh)
        k == toLowerCase(S_ContentType)
    IN  IF status \notin 200..599
        THEN [threw |-> TRUE, err |-> "RangeError", response |-> NoResponse]
        ELSE IF ~b.null /\ status \in NullBodyStatus
        THEN [threw |-> TRUE, err |-> "TypeError", response |-> NoResponse]
        ELSE [threw |-> FALSE, err |-> "",
              response |->
                [status |-> status,
                 headers |-> IF b.type # <<>> /\ k \notin DOMAIN h
                             THEN HeadersAppend(h, S_ContentType, b.type).h
                             ELSE h,
                 body |-> b]]

(***************************************************************************)
(* ResAccumulator.  A builder is the record r of its private fields;       *)
(* _headers is a reference into the heap hp of Headers objects.  Every     *)
(* method is an operator from (hp, r, arguments) to its outcome: the heap  *)
(* and the fields it leaves behind, whether it threw, and the Response it  *)
(* returned.                                                               *)
(***************************************************************************)
AlreadyFinalized == "Response has already been finalized"

\* ret is what the call returns: "this", "response", or "" for nothing.
Returned(hp, r) ==
    [hp |-> hp, r |-> r, threw |-> FALSE, err |-> "", ret |-> "this",
     hasResponse |-> FALSE, response |-> NoResponse]

ReturnedResponse(hp, r, response) ==
    [hp |-> hp, r |-> r, threw |-> FALSE, err |-> "", ret |-> "response",
     hasResponse |-> TRUE, response |-> response]

Threw(hp, r, err) ==
    [hp |-> hp, r |-> r, threw |-> TRUE, err |-> err, ret |-> "",
     hasResponse |-> FALSE, response |-> NoResponse]

\* A method that ends without a return statement.
ReturnedNothing(hp, r) ==
    [hp |-> hp, r |-> r, threw |-> FALSE, err |-> "", ret |-> "",
     hasResponse |-> FALSE, response |-> NoResponse]

\* new ResAccumulator(): the field initialisers; id is the new Headers object.
NewResAccumulator(id) ==
    [_status |-> 200, _headers |-> id, _body |-> Undefined, _finalized |-> FALSE]

\* assertWritable without its check.
assertWritableNoCheck(r) == TRUE

\* TRUE when assertWritable returns, FALSE when it throws.
assertWritable(r) == ~r._finalized

\* status without its return statement.
statusWithoutReturn(hp, r, code) ==
    IF ~assertWritable(r) THEN Threw(hp, r, AlreadyFinalized)
    ELSE ReturnedNothing(hp, [r EXCEPT !._status = code])

status(hp, r, code) ==
    IF ~assertWritable(r) THEN Threw(hp, r, AlreadyFinalized)
    ELSE Returned(hp, [r EXCEPT !._status = code])

getStatus(r) == r._status

\* set that starts a new collection holding only the header it is given.
setReplacingAll(hp, r, name, value) ==
    IF ~assertWritable(r) THEN Threw(hp, r, AlreadyFinalized)
    ELSE LET s == HeadersSet(EmptyHeaders, name, value)
         IN  IF s.threw THEN Threw(hp, r, "TypeError")
             ELSE Returned([hp EXCEPT ![r._headers] = s.h], r)

\* set that keeps a header that is already present.
setIfAbsent(hp, r, name, value) ==
    IF ~assertWritable(r) THEN Threw(hp, r, AlreadyFinalized)
    ELSE LET s == HeadersSet(hp[r._headers], name, value)
         IN  IF s.threw THEN Threw(hp, r, "TypeError")
             ELSE IF toLowerCase(name) \in DOMAIN hp[r._headers] THEN Returned(hp, r)
             ELSE Returned([hp EXCEPT ![r._headers] = s.h], r)

set(hp, r, name, value) ==
    IF ~assertWritable(r) THEN Threw(hp, r, AlreadyFinalized)
    ELSE LET s == HeadersSet(hp[r._headers], name, value)
         IN  IF s.threw THEN Threw(hp, r, "TypeError")
             ELSE Returned([hp EXCEPT ![r._headers] = s.h], r)

\* The loop of headers(): the entries before a rejected one stay applied.
RECURSIVE SetEntries(_, _)
SetEntries(h, entries) ==
    IF entries = <<>> THEN [threw |-> FALSE, h |-> h]
    ELSE LET s == HeadersSet(h, entries[1][1], entries[1][2])
         IN  IF s.threw THEN s ELSE SetEntries(s.h, Tail(entries))

\* headers that adds each entry to the values already held under its name.
headersAppending(hp, r, map) ==
    LET RECURSIVE AppendEntries(_, _)
        AppendEntries(h, entries) ==
            IF entries = <<>> THEN [threw |-> FALSE, h |-> h]
            ELSE LET s == HeadersAppend(h, entries[1][1], entries[1][2])
                 IN  IF s.threw THEN s ELSE AppendEntries(s.h, Tail(entries))
    IN  IF ~assertWritable(r) THEN Threw(hp, r, AlreadyFinalized)
        ELSE LET s == AppendEntries(hp[r._headers], map)
                 hp2 == [hp EXCEPT ![r._headers] = s.h]
             IN  IF s.threw THEN Threw(hp2, r, "TypeError") ELSE Returned(hp2, r)

headers(hp, r, map) ==
    IF ~assertWritable(r) THEN Threw(hp, r, AlreadyFinalized)
    ELSE LET s == SetEntries(hp[r._headers], map)
             hp2 == [hp EXCEPT ![r._headers] = s.h]
         IN  IF s.threw THEN Threw(hp2, r, "TypeError") ELSE Returned(hp2, r)

\* getHeader guarded like the mutators.
getHeaderGuarded(hp, r, name) ==
    IF ~assertWritable(r) THEN [threw |-> TRUE, null |-> TRUE, value |-> <<>>]
    ELSE HeadersGet(hp[r._headers], name)

getHeader(hp, r, name) == HeadersGet(hp[r._headers], name)

\* getHeaders that returns the builder's own collection.
getHeadersShared(hp, r) == [hp |-> hp, ret |-> r._headers]

\* new Headers(this._headers): a new object filled with the entries.
getHeaders(hp, r) ==
    [hp |-> Append(hp, [n \in DOMAIN hp[r._headers] |-> hp[r._headers][n]]),
     ret |-> Len(hp) + 1]

type(hp, r, mime) ==
    IF ~assertWritable(r) THEN Threw(hp, r, AlreadyFinalized)
    ELSE LET s == HeadersSet(hp[r._headers], S_ContentType, mime)
         IN  IF s.threw THEN Threw(hp, r, "TypeError")
             ELSE Returned([hp EXCEPT ![r._headers] = s.h], r)

\* finalize that marks the builder only once the response is built.
finalizeFlagLast(hp, r, fresh) ==
    IF ~assertWritable(r) THEN Threw(hp, r, AlreadyFinalized)
    ELSE LET n == NewResponse(r._body, r._status, hp[r._headers], fresh)
         IN  IF n.threw THEN Threw(hp, r, n.err)
             ELSE ReturnedResponse(hp, [r EXCEPT !._finalized = TRUE], n.response)

\* finalize without its assertWritable call.
finalizeUnguarded(hp, r, fresh) ==
    LET r2 == [r EXCEPT !._finalized = TRUE]
        n == NewResponse(r2._body, r2._status, hp[r2._headers], fresh)
    IN  IF n.threw THEN Threw(hp, r2, n.err)
        ELSE ReturnedResponse(hp, r2, n.response)

\* finalize that builds the response without the accumulated headers.
finalizeWithoutHeaders(hp, r, fresh) ==
    IF ~assertWritable(r) THEN Threw(hp, r, AlreadyFinalized)
    ELSE LET r2 == [r EXCEPT !._finalized = TRUE]
             n == NewResponse(r2._body, r2._status, EmptyHeaders, fresh)
         IN  IF n.threw THEN Threw(hp, r2, n.err)
             ELSE ReturnedResponse(hp, r2, n.response)

finalize(hp, r, fresh) ==
    IF ~assertWritable(r) THEN Threw(hp, r, AlreadyFinalized)
    ELSE LET r2 == [r EXCEPT !._finalized = TRUE]
             n == NewResponse(r2._body, r2._status, hp[r2._headers], fresh)
         IN  IF n.threw THEN Threw(hp, r2, n.err)
             ELSE ReturnedResponse(hp, r2, n.response)

isFinalized(r) == r._finalized

send(hp, r, body, fresh) ==
    IF ~assertWritable(r) THEN Threw(hp, r, AlreadyFinalized)
    ELSE finalize(hp, [r EXCEPT !._body = body], fresh)

\* json that keeps a Content-Type the caller has set.
jsonKeepingType(hp, r, data, fresh) ==
    IF ~assertWritable(r) THEN Threw(hp, r, AlreadyFinalized)
    ELSE LET k == toLowerCase(S_ContentType)
             s == IF k \in DOMAIN hp[r._headers]
                  THEN [threw |-> FALSE, h |-> hp[r._headers]]
                  ELSE HeadersSet(hp[r._headers], S_ContentType, S_applicationjson)
             hp2 == [hp EXCEPT ![r._headers] = s.h]
             j == JSONStringify(data)
         IN  IF j.threw THEN Threw(hp2, r, "TypeError")
             ELSE finalize(hp2,
                    [r EXCEPT !._body = IF j.undef THEN Undefined ELSE TextBody(j.text)],
                    fresh)

\* json that writes a string as it is, without serialising it.
jsonRawString(hp, r, data, fresh) ==
    IF ~assertWritable(r) THEN Threw(hp, r, AlreadyFinalized)
    ELSE LET s == HeadersSet(hp[r._headers], S_ContentType, S_applicationjson)
             hp2 == [hp EXCEPT ![r._headers] = s.h]
             j == JSONStringify(data)
         IN  IF j.threw THEN Threw(hp2, r, "TypeError")
             ELSE finalize(hp2,
                    [r EXCEPT !._body =
                        IF j.undef THEN Undefined
                        ELSE IF data.t = "string" THEN TextBody(data.s)
                        ELSE TextBody(j.text)],
                    fresh)

json(hp, r, data, fresh) ==
    IF ~assertWritable(r) THEN Threw(hp, r, AlreadyFinalized)
    ELSE LET s == HeadersSet(hp[r._headers], S_ContentType, S_applicationjson)
             hp2 == [hp EXCEPT ![r._headers] = s.h]
             j == JSONStringify(data)
         IN  IF j.threw THEN Threw(hp2, r, "TypeError")
             ELSE finalize(hp2,
                    [r EXCEPT !._body = IF j.undef THEN Undefined ELSE TextBody(j.text)],
                    fresh)

\* stream that sends a new stream piped from the handle.
streamPiped(hp, r, handle, fresh) ==
    IF ~assertWritable(r) THEN Threw(hp, r, AlreadyFinalized)
    ELSE finalize(hp, [r EXCEPT !._body = StreamBody(fresh + 1)], fresh + 1)

stream(hp, r, handle, fresh) ==
    IF ~assertWritable(r) THEN Threw(hp, r, AlreadyFinalized)
    ELSE finalize(hp, [r EXCEPT !._body = StreamBody(handle)], fresh)

\* The argument of a call that leaves an optional parameter out.
Omitted == 0

\* redirect that reopens the builder to replace an earlier response.
redirectReopening(hp, r, url, code, fresh) ==
    LET r2 == [r EXCEPT !._finalized = FALSE,
                        !._status = IF code = Omitted THEN 302 ELSE code]
        s == HeadersSet(hp[r._headers], S_Location, url)
        hp2 == [hp EXCEPT ![r._headers] = s.h]
        r3 == [r2 EXCEPT !._body = Undefined, !._finalized = TRUE]
        n == NewResponse(r3._body, r3._status, hp2[r3._headers], fresh)
    IN  IF s.threw THEN Threw(hp, r2, "TypeError")
        ELSE IF n.threw THEN Threw(hp2, r3, n.err)
        ELSE ReturnedResponse(hp2, r3, n.response)

\* redirect that only sets the status when a code is given.
redirectKeepingStatus(hp, r, url, code, fresh) ==
    IF ~assertWritable(r) THEN Threw(hp, r, AlreadyFinalized)
    ELSE LET r2 == IF code = Omitted THEN r ELSE [r EXCEPT !._status = code]
             s == HeadersSet(hp[r._headers], S_Location, url)
             hp2 == [hp EXCEPT ![r._headers] = s.h]
             r3 == [r2 EXCEPT !._body = Undefined, !._finalized = TRUE]
             n == NewResponse(r3._body, r3._status, hp2[r3._headers], fresh)
         IN  IF s.threw THEN Threw(hp, r2, "TypeError")
             ELSE IF n.threw THEN Threw(hp2, r3, n.err)
             ELSE ReturnedResponse(hp2, r3, n.response)

redirect(hp, r, url, code, fresh) ==
    IF ~assertWritable(r) THEN Threw(hp, r, AlreadyFinalized)
    ELSE LET r2 == [r EXCEPT !._status = IF code = Omitted THEN 302 ELSE code]
             s == HeadersSet(hp[r._headers], S_Location, url)
         IN  IF s.threw THEN Threw(hp, r2, "TypeError")
             ELSE finalize([hp EXCEPT ![r._headers] = s.h],
                           [r2 EXCEPT !._body = Undefined], fresh)

(***************************************************************************)
(* The request side.  A Request is an object of the platform: it is known  *)
(* by its identity, and its url is the serialisation of a parsed URL (the  *)
(* Request constructor parses and serialises it, and rejects a URL with    *)
(* credentials), its headers a Headers collection.                         *)
(***************************************************************************)
S_id == <<105, 100>>
S_123 == <<49, 50, 51>>
S_url_users == <<104, 116, 116, 112, 115, 58, 47, 47, 101, 120, 97, 109, 112, 108, 101, 46, 99, 111, 109, 47, 117, 115, 101, 114, 115, 63, 115, 111, 114, 116, 61, 97, 115, 99, 38, 108, 105, 109, 105, 116, 61, 49, 48>>
S_url_tags == <<104, 116, 116, 112, 58, 47, 47, 104, 111, 115, 116, 46, 116, 101, 115, 116, 58, 56, 48, 56, 48, 47, 97, 47, 98, 63, 116, 97, 103, 61, 106, 115, 38, 120, 61, 49, 38, 116, 97, 103, 61, 110, 111, 100, 101, 38, 38, 116, 97, 103, 61, 97, 43, 98, 37, 50, 49, 38, 102, 108, 97, 103, 35, 116, 111, 112>>
S_sort == <<115, 111, 114, 116>>
S_tag == <<116, 97, 103>>
S_flag == <<102, 108, 97, 103>>

\* https://example.com/users?sort=asc&limit=10, twice as two objects, and
\* http://host.test:8080/a/b?tag=js&x=1&tag=node&&tag=a+b%21&flag#top
Requests ==
    << [url |-> S_url_users,
        headers |-> HeadersSet(EmptyHeaders, S_contenttype, S_applicationjson).h],
       [url |-> S_url_users,
        headers |-> HeadersSet(EmptyHeaders, S_contenttype, S_applicationjson).h],
       [url |-> S_url_tags,
        headers |-> HeadersSet(EmptyHeaders, S_XA, S_v).h] >>

\* The names get is called with, and the keys the query is asked for.
RequestHeaderNames == {S_ContentType, S_contenttype, S_xa, S_badname}
QueryKeys == {S_tag, S_sort, S_flag, S_id}

\* The first position of s holding a character of cs, Len(s) + 1 if none.
FirstOf(s, cs) ==
    IF \E i \in 1..Len(s) : s[i] \in cs
    THEN CHOOSE i \in 1..Len(s) :
            s[i] \in cs /\ \A j \in 1..(i - 1) : s[j] \notin cs
    ELSE Len(s) + 1

\* new URL(s) for a serialised URL s with an authority:
\* scheme "://" host [":" port] path ["?" query] ["#" fragment].
NewURL(s) ==
    LET colon == FirstOf(s, {58})
        afterSlashes == Drop(s, colon + 2)
        authEnd == FirstOf(afterSlashes, {47, 63, 35})
        authority == SubSeq(afterSlashes, 1, authEnd - 1)
        hostEnd == IF authority # <<>> /\ authority[1] = 91
                   THEN FirstOf(authority, {93}) + 1
                   ELSE FirstOf(authority, {58})
        rest == Drop(afterSlashes, authEnd - 1)
        pathEnd == FirstOf(rest, {63, 35})
        afterPath == Drop(rest, pathEnd - 1)
        hashAt == FirstOf(afterPath, {35})
        search == SubSeq(afterPath, 1, hashAt - 1)
    IN  [protocol |-> SubSeq(s, 1, colon),
         hostname |-> SubSeq(authority, 1, hostEnd - 1),
         port |-> Drop(authority, hostEnd),
         pathname |-> SubSeq(rest, 1, pathEnd - 1),
         query |-> IF search = <<>> THEN <<>> ELSE Tail(search),
         hash |-> Drop(afterPath, hashAt - 1)]

\* String.prototype.replace with a string pattern: the first occurrence.
StringReplace(s, pat, by) ==
    LET At(i) == SubSeq(s, i, i + Len(pat) - 1) = pat
        Places == {i \in 1..(Len(s) - Len(pat) + 1) : At(i)}
    IN  IF Places = {} THEN s
        ELSE LET i == CHOOSE i \in Places : \A j \in Places : i <= j
             IN  SubSeq(s, 1, i - 1) \o by \o Drop(s, i + Len(pat) - 1)

\* application/x-www-form-urlencoded parsing, which url.searchParams holds
\* the result of: a list of (name, value) pairs.
RECURSIVE Split(_, _)
Split(s, c) ==
    LET i == FirstOf(s, {c})
    IN  IF i > Len(s) THEN <<s>>
        ELSE <<SubSeq(s, 1, i - 1)>> \o Split(Drop(s, i), c)

PlusToSpace(s) == [i \in 1..Len(s) |-> IF s[i] = 43 THEN 32 ELSE s[i]]

HexDigit(c) ==
    IF c \in 48..57 THEN c - 48
    ELSE IF c \in 65..70 THEN c - 55
    ELSE IF c \in 97..102 THEN c - 87
    ELSE 0 - 1

RECURSIVE PercentDecode(_)
PercentDecode(s) ==
    IF s = <<>> THEN <<>>
    ELSE IF s[1] = 37 /\ Len(s) >= 3 /\ HexDigit(s[2]) >= 0 /\ HexDigit(s[3]) >= 0
    THEN <<HexDigit(s[2]) * 16 + HexDigit(s[3])>> \o PercentDecode(Drop(s, 3))
    ELSE <<s[1]>> \o PercentDecode(Tail(s))

NotEmpty(s) == s # <<>>

UrlencodedParse(q) ==
    LET sequences == SelectSeq(Split(q, 38), NotEmpty)
        Decoded(t) == UTF8Decode(PercentDecode(PlusToSpace(t)))
    IN  [i \in 1..Len(sequences) |->
            LET eq == FirstOf(sequences[i], {61})
            IN  [name |-> Decoded(SubSeq(sequences[i], 1, eq - 1)),
                 value |-> Decoded(Drop(sequences[i], eq))]]

\* URLSearchParams.prototype.getAll, get and has over the list.
RECURSIVE SearchParamsGetAll(_, _)
SearchParamsGetAll(list, name) ==
    IF list = <<>> THEN <<>>
    ELSE (IF list[1].name = name THEN <<list[1].value>> ELSE <<>>)
            \o SearchParamsGetAll(Tail(list), name)

RECURSIVE SearchParamsGet(_, _)
SearchParamsGet(list, name) ==
    IF list = <<>> THEN [null |-> TRUE, value |-> <<>>]
    ELSE IF list[1].name = name THEN [null |-> FALSE, value |-> list[1].value]
    ELSE SearchParamsGet(Tail(list), name)

SearchParamsHas(list, name) == \E i \in 1..Len(list) : list[i].name = name

\* A params object: a mapping from parameter names to strings.
EmptyParams == [k \in {} |-> <<>>]

\* The objects the caller holds before any call: { id: '123' }.
CallerParams == << [k \in {S_id} |-> S_123] >>

\* params = {}: an omitted argument is a new empty object.
DefaultParams(os, params) ==
    IF params = Omitted
    THEN [objs |-> Append(os, EmptyParams), params |-> Len(os) + 1]
    ELSE [objs |-> os, params |-> params]

\* createRequestLike with protocol left as url.protocol.
createRequestLikeKeepingColon(os, raw, params) ==
    LET d == DefaultParams(os, params)
        url == NewURL(Requests[raw].url)
    IN  [objs |-> d.objs,
         req |-> [raw |-> raw,
                  params |-> d.params,
                  query |-> UrlencodedParse(url.query),
                  path |-> url.pathname,
                  hostname |-> url.hostname,
                  protocol |-> url.protocol,
                  originalUrl |-> Requests[raw].url,
                  body |-> Undefined,
                  rawBody |-> Undefined]]

\* createRequestLike with query as a plain object of the entries, which
\* keeps one value for a name.
createRequestLikeQueryObject(os, raw, params) ==
    LET d == DefaultParams(os, params)
        url == NewURL(Requests[raw].url)
        list == UrlencodedParse(url.query)
        LastOf(i) == \A j \in (i + 1)..Len(list) : list[j].name # list[i].name
        Kept(n) == Cardinality({i \in 1..n : LastOf(i)})
    IN  [objs |-> d.objs,
         req |-> [raw |-> raw,
                  params |-> d.params,
                  query |-> [k \in 1..Kept(Len(list)) |->
                                list[CHOOSE i \in 1..Len(list) :
                                        LastOf(i) /\ Kept(i) = k]],
                  path |-> url.pathname,
                  hostname |-> url.hostname,
                  protocol |-> StringReplace(url.protocol, <<58>>, <<>>),
                  originalUrl |-> Requests[raw].url,
                  body |-> Undefined,
                  rawBody |-> Undefined]]

\* createRequestLike(raw, params): [objs, req]; raw and params are the
\* identities of the objects given.
createRequestLike(os, raw, params) ==
    LET d == DefaultParams(os, params)
        url == NewURL(Requests[raw].url)
    IN  [objs |-> d.objs,
         req |-> [raw |-> raw,
                  params |-> d.params,
                  query |-> UrlencodedParse(url.query),
                  path |-> url.pathname,
                  hostname |-> url.hostname,
                  protocol |-> StringReplace(url.protocol, <<58>>, <<>>),
                  originalUrl |-> Requests[raw].url,
                  body |-> Undefined,
                  rawBody |-> Undefined]]

\* req.get(name): raw.headers.get(name.toLowerCase()) ?? null
RequestGet(req, name) == HeadersGet(Requests[req.raw].headers, toLowerCase(name))

\* createContext giving every builder the Headers collection of the first.
createContextSharedHeaders(os, hp, raw, params) ==
    LET d == DefaultParams(os, params)
        q == createRequestLike(d.objs, raw, d.params)
    IN  [objs |-> q.objs,
         hp |-> Append(hp, EmptyHeaders),
         req |-> q.req,
         res |-> NewResAccumulator(1)]

\* createContext calling createRequestLike without params.
createContextWithoutParams(os, hp, raw, params) ==
    LET q == createRequestLike(os, raw, Omitted)
    IN  [objs |-> q.objs,
         hp |-> Append(hp, EmptyHeaders),
         req |-> q.req,
         res |-> NewResAccumulator(Len(hp) + 1)]

\* createContext(raw, params): [objs, hp, req, res]
createContext(os, hp, raw, params) ==
    LET d == DefaultParams(os, params)
        q == createRequestLike(d.objs, raw, d.params)
    IN  [objs |-> q.objs,
         hp |-> Append(hp, EmptyHeaders),
         req |-> q.req,
         res |-> NewResAccumulator(Len(hp) + 1)]

\* What a read returned: no value yet.
NoResult ==
    [arg |-> <<>>, null |-> TRUE, str |-> <<>>, num |-> 0, bool |-> FALSE,
     list |-> <<>>]

(***************************************************************************)
(* The state machine: NumBuilders builders, the heap of Headers objects,   *)
(* the collections handed out by getHeaders (with the builder each came   *)
(* from), the responses returned so                                        *)
(* far, and the most recent call (its method, its builder, its outcome,    *)
(* the builder it returned, 0 when it returned none).                      *)
(***************************************************************************)
Init ==
    /\ res = [b \in Builders |-> NewResAccumulator(b)]
    /\ heap = [i \in Builders |-> EmptyHeaders]
    /\ handed = {}
    /\ responses = <<>>
    /\ call = [op |-> "new", b |-> 0, threw |-> FALSE, err |-> "", ret |-> 0]
    /\ nops = 0
    /\ ctx = <<>>
    /\ objs = <<>>
    /\ got = NoResult

\* The identity of the next stream object the platform creates.
Fresh == Cardinality(StreamHandles) + Len(responses) + 1

\* The effect of a method call with outcome o on builder b.
Method(b, op, args, o) ==
    /\ nops < MaxOps
    /\ nops' = nops + 1
    /\ res' = [res EXCEPT ![b] = o.r]
    /\ heap' = o.hp
    /\ call' = [op |-> op, b |-> b, threw |-> o.threw, err |-> o.err,
                ret |-> IF o.ret = "this" THEN b ELSE 0]
    /\ responses' = IF o.hasResponse
                    THEN Append(responses,
                                [by |-> b, op |-> op, args |-> args,
                                 status |-> o.response.status,
                                 headers |-> o.response.headers,
                                 body |-> o.response.body])
                    ELSE responses
    /\ UNCHANGED <<handed, reqVars>>

CallStatus(b, code) == Method(b, "status", <<code>>, status(heap, res[b], code))

CallSet(b, name, value) ==
    Method(b, "set", <<name, value>>, set(heap, res[b], name, value))

CallHeaders(b, map) == Method(b, "headers", <<map>>, headers(heap, res[b], map))

CallType(b, mime) == Method(b, "type", <<mime>>, type(heap, res[b], mime))

CallSend(b, body) == Method(b, "send", <<body>>, send(heap, res[b], body, Fresh))

CallJson(b, data) == Method(b, "json", <<data>>, json(heap, res[b], data, Fresh))

CallStream(b, handle) ==
    Method(b, "stream", <<handle>>, stream(heap, res[b], handle, Fresh))

CallRedirect(b, url, code) ==
    Method(b, "redirect", <<url, code>>, redirect(heap, res[b], url, code, Fresh))

CallFinalize(b) == Method(b, "finalize", <<>>, finalize(heap, res[b], Fresh))

CallGetHeaders(b) ==
    LET g == getHeaders(heap, res[b])
    IN  /\ nops < MaxOps
        /\ Cardinality(handed) < MaxClones
        /\ nops' = nops + 1
        /\ heap' = g.hp
        /\ handed' = handed \cup {[id |-> g.ret, of |-> b]}
        /\ call' = [op |-> "getHeaders", b |-> b, threw |-> FALSE, err |-> "",
                    ret |-> 0]
        /\ UNCHANGED <<res, responses, reqVars>>

\* A caller mutates a collection it got from getHeaders.
Mutate(op, id, s) ==
    /\ nops < MaxOps
    /\ nops' = nops + 1
    /\ heap' = [heap EXCEPT ![id] = s.h]
    /\ call' = [op |-> op, b |-> 0, threw |-> s.threw,
                err |-> IF s.threw THEN "TypeError" ELSE "", ret |-> 0]
    /\ UNCHANGED <<res, handed, responses, reqVars>>

ReturnedSet(id, name, value) ==
    Mutate("Headers.set", id, HeadersSet(heap[id], name, value))

ReturnedAppend(id, name, value) ==
    Mutate("Headers.append", id, HeadersAppend(heap[id], name, value))

ReturnedDelete(id, name) ==
    Mutate("Headers.delete", id, HeadersDelete(heap[id], name))

Bodies == {TextBody(S_Test)}

Next ==
    \/ \E b \in Builders, code \in StatusCodes : CallStatus(b, code)
    \/ \E b \in Builders, a \in SetArgs : CallSet(b, a[1], a[2])
    \/ \E b \in Builders, map \in HeaderMaps : CallHeaders(b, map)
    \/ \E b \in Builders, mime \in HeaderValues : CallType(b, mime)
    \/ \E b \in Builders, body \in Bodies : CallSend(b, body)
    \/ \E b \in Builders, data \in JsonData : CallJson(b, data)
    \/ \E b \in Builders, handle \in StreamHandles : CallStream(b, handle)
    \/ \E b \in Builders, url \in Urls, code \in RedirectCodes \cup {Omitted} :
            CallRedirect(b, url, code)
    \/ \E b \in Builders : CallFinalize(b)
    \/ \E b \in Builders : CallGetHeaders(b)
    \/ \E c \in handed, a \in ReturnedArgs : ReturnedSet(c.id, a[1], a[2])
    \/ \E c \in handed, a \in ReturnedArgs : ReturnedAppend(c.id, a[1], a[2])
    \/ \E c \in handed, name \in DeleteArgs : ReturnedDelete(c.id, name)

Spec == Init /\ [][Next]_vars

(***************************************************************************)
(* Contexts.  Builders and requests come into being by createContext and   *)
(* by new ResAccumulator(); the caller reads the builders and the          *)
(* requests, and owns the params objects it passes.                        *)
(***************************************************************************)
InitCtx ==
    /\ res = <<>>
    /\ heap = <<>>
    /\ handed = {}
    /\ responses = <<>>
    /\ call = [op |-> "new", b |-> 0, threw |-> FALSE, err |-> "", ret |-> 0]
    /\ nops = 0
    /\ ctx = <<>>
    /\ objs = CallerParams
    /\ got = NoResult

CallCreateContext(raw, params) ==
    LET c == createContext(objs, heap, raw, params)
    IN  /\ nops < MaxOps
        /\ Len(res) < NumBuilders
        /\ nops' = nops + 1
        /\ objs' = c.objs
        /\ heap' = c.hp
        /\ res' = Append(res, c.res)
        /\ ctx' = Append(ctx, [req |-> c.req, res |-> Len(res) + 1])
        /\ call' = [op |-> "createContext", b |-> Len(res) + 1, threw |-> FALSE,
                    err |-> "", ret |-> 0]
        /\ UNCHANGED <<handed, responses, got>>

\* new ResAccumulator()
CallNew ==
    /\ nops < MaxOps
    /\ Len(res) < NumBuilders
    /\ nops' = nops + 1
    /\ heap' = Append(heap, EmptyHeaders)
    /\ res' = Append(res, NewResAccumulator(Len(heap) + 1))
    /\ call' = [op |-> "new ResAccumulator", b |-> Len(res) + 1, threw |-> FALSE,
                err |-> "", ret |-> 0]
    /\ UNCHANGED <<handed, responses, reqVars>>

\* A call that returns a value and assigns nothing; on is the builder or the
\* context it is made on.
Read(op, on, arg, threw, value) ==
    /\ nops < MaxOps
    /\ nops' = nops + 1
    /\ call' = [op |-> op, b |-> on, threw |-> threw,
                err |-> IF threw THEN "TypeError" ELSE "", ret |-> 0]
    /\ got' = [value EXCEPT !.arg = arg]
    /\ UNCHANGED <<res, heap, handed, responses, ctx, objs>>

CallGetStatus(b) ==
    Read("getStatus", b, <<>>, FALSE,
         [NoResult EXCEPT !.null = FALSE, !.num = getStatus(res[b])])

CallGetHeader(b, name) ==
    LET g == getHeader(heap, res[b], name)
    IN  Read("getHeader", b, name, g.threw,
             [NoResult EXCEPT !.null = g.null, !.str = g.value])

CallIsFinalized(b) ==
    Read("isFinalized", b, <<>>, FALSE,
         [NoResult EXCEPT !.null = FALSE, !.bool = isFinalized(res[b])])

CallRequestGet(i, name) ==
    LET g == RequestGet(ctx[i].req, name)
    IN  Read("req.get", i, name, g.threw,
             [NoResult EXCEPT !.null = g.null, !.str = g.value])

CallQueryGet(i, name) ==
    LET g == SearchParamsGet(ctx[i].req.query, name)
    IN  Read("query.get", i, name, FALSE,
             [NoResult EXCEPT !.null = g.null, !.str = g.value])

CallQueryGetAll(i, name) ==
    Read("query.getAll", i, name, FALSE,
         [NoResult EXCEPT !.null = FALSE,
                          !.list = SearchParamsGetAll(ctx[i].req.query, name)])

CallQueryHas(i, name) ==
    Read("query.has", i, name, FALSE,
         [NoResult EXCEPT !.null = FALSE,
                          !.bool = SearchParamsHas(ctx[i].req.query, name)])

\* The caller assigns a property of a params object it holds.
ParamsAssign(p, name, value) ==
    /\ nops < MaxOps
    /\ nops' = nops + 1
    /\ objs' = [objs EXCEPT ![p] = [k \in DOMAIN objs[p] \cup {name} |->
                                       IF k = name THEN value ELSE objs[p][k]]]
    /\ call' = [op |-> "params[name] = value", b |-> 0, threw |-> FALSE,
                err |-> "", ret |-> 0]
    /\ UNCHANGED <<res, heap, handed, responses, ctx, got>>

\* The data json is called with in contexts: one that serialises and one
\* that JSON.stringify rejects.
ContextJsonData == {JNum(1), JBigInt(1)}

NextCtx ==
    \/ \E raw \in DOMAIN Requests, params \in DOMAIN objs \cup {Omitted} :
            CallCreateContext(raw, params)
    \/ CallNew
    \/ \E b \in DOMAIN res, code \in StatusCodes : CallStatus(b, code)
    \/ \E b \in DOMAIN res, a \in SetArgs : CallSet(b, a[1], a[2])
    \/ \E b \in DOMAIN res, map \in HeaderMaps : CallHeaders(b, map)
    \/ \E b \in DOMAIN res, mime \in HeaderValues : CallType(b, mime)
    \/ \E b \in DOMAIN res, body \in Bodies : CallSend(b, body)
    \/ \E b \in DOMAIN res, data \in ContextJsonData : CallJson(b, data)
    \/ \E b \in DOMAIN res, handle \in StreamHandles : CallStream(b, handle)
    \/ \E b \in DOMAIN res, url \in Urls, code \in RedirectCodes \cup {Omitted} :
            CallRedirect(b, url, code)
    \/ \E b \in DOMAIN res : CallFinalize(b)
    \/ \E b \in DOMAIN res : CallGetHeaders(b)
    \/ \E b \in DOMAIN res : CallGetStatus(b)
    \/ \E b \in DOMAIN res, name \in HeaderNames : CallGetHeader(b, name)
    \/ \E b \in DOMAIN res : CallIsFinalized(b)
    \/ \E i \in DOMAIN ctx, name \in RequestHeaderNames : CallRequestGet(i, name)
    \/ \E i \in DOMAIN ctx, name \in QueryKeys : CallQueryGet(i, name)
    \/ \E i \in DOMAIN ctx, name \in QueryKeys : CallQueryGetAll(i, name)
    \/ \E i \in DOMAIN ctx, name \in QueryKeys : CallQueryHas(i, name)
    \/ \E p \in DOMAIN objs : ParamsAssign(p, S_id, S_v)

SpecCtx == InitCtx /\ [][NextCtx]_vars

(***************************************************************************)
(* What a caller can observe of builder b.                                 *)
(***************************************************************************)
BuilderOps ==
    {"status", "set", "headers", "type", "send", "json", "stream", "redirect",
     "finalize"}

View(b) ==
    [status |-> getStatus(res[b]),
     headers |-> heap[res[b]._headers],
     body |-> res[b]._body,
     finalized |-> isFinalized(res[b])]

\* This step is a call of a builder method on b.
CalledOn(b) == nops' = nops + 1 /\ call'.b = b /\ call'.op \in BuilderOps

(***************************************************************************)
(* C1: on a finalized builder every call of status, set, headers, type,    *)
(* send, json, stream, redirect or finalize fails with the 'already        *)
(* finalized' error and leaves status, headers, body and the finalized     *)
(* flag as they were.                                                      *)
(***************************************************************************)
C1_FinalizedRejectsCalls ==
    [][\A b \in Builders :
          (isFinalized(res[b]) /\ CalledOn(b))
              => /\ call'.threw
                 /\ call'.err = AlreadyFinalized
                 /\ View(b)' = View(b)]_vars

C1_Witness ==
    \E b \in Builders :
        /\ call.b = b /\ call.op = "headers"
        /\ call.threw /\ call.err = AlreadyFinalized
        /\ isFinalized(res[b])
        /\ \E i \in 1..Len(responses) : responses[i].by = b

(***************************************************************************)
(* C2: the finalized flag is false at construction and, once true, is true *)
(* in every later state.                                                   *)
(***************************************************************************)
C2_FinalizedMonotonic ==
    /\ \A b \in Builders : ~isFinalized(res[b])
    /\ [][\A b \in Builders : isFinalized(res[b]) => isFinalized(res[b])']_vars

C2_Witness ==
    \E b \in Builders :
        /\ isFinalized(res[b])
        /\ call.b = b /\ call.op = "redirect" /\ call.threw
        /\ nops >= 2

(***************************************************************************)
(* C3: a call of a builder method that fails, for whatever reason, leaves  *)
(* status, headers, body and the finalized flag as they were.              *)
(***************************************************************************)
C3_FailedCallChangesNothing ==
    [][\A b \in Builders :
          (CalledOn(b) /\ call'.threw) => View(b)' = View(b)]_vars

(***************************************************************************)
(* C4: after a successful status, set, headers or type call on a writable  *)
(* builder, getStatus() is the code of the most recent status call (200 if *)
(* none) and getHeader(name) is the value of the most recent write to that *)
(* name, names being compared without regard to letter case (null if never *)
(* written).  Stated per call: the call's own writes are what the reads    *)
(* return afterwards, and every other read returns what it did before.     *)
(***************************************************************************)
SameLetter(c, d) ==
    \/ c = d
    \/ c \in 65..90 /\ d = c + 32
    \/ d \in 65..90 /\ c = d + 32

SameName(a, b) ==
    Len(a) = Len(b) /\ \A i \in 1..Len(a) : SameLetter(a[i], b[i])

ValidNames == {n \in HeaderNames : isValidHeaderName(n)}

\* The index of the last entry of writes that names the header, 0 if none.
LastWrite(writes, name) ==
    LET hits == {i \in 1..Len(writes) : SameName(writes[i][1], name)}
    IN  IF hits = {} THEN 0 ELSE CHOOSE i \in hits : \A j \in hits : j <= i

Got(value) == [threw |-> FALSE, null |-> FALSE, value |-> value]
GotNull == [threw |-> FALSE, null |-> TRUE, value |-> <<>>]

\* The values as written.
ReadsReflectWritten(b, writes) ==
    /\ getStatus(res[b])' = getStatus(res[b])
    /\ \A name \in ValidNames :
          getHeader(heap, res[b], name)' =
             IF LastWrite(writes, name) = 0 THEN getHeader(heap, res[b], name)
             ELSE Got(writes[LastWrite(writes, name)][2])

\* The values as written, without their leading and trailing whitespace.
ReadsReflectTrimmed(b, writes) ==
    /\ getStatus(res[b])' = getStatus(res[b])
    /\ \A name \in ValidNames :
          getHeader(heap, res[b], name)' =
             IF LastWrite(writes, name) = 0 THEN getHeader(heap, res[b], name)
             ELSE Got(headerValueNormalize(writes[LastWrite(writes, name)][2]))

FreshReads ==
    \A b \in Builders :
        /\ getStatus(res[b]) = 200
        /\ \A name \in ValidNames : getHeader(heap, res[b], name) = GotNull

\* This step is a call of method op on b that returned.
Succeeded(b, op) == CalledOn(b) /\ call'.op = op /\ ~call'.threw

StatusReflected(b) ==
    Succeeded(b, "status") =>
        \A code \in StatusCodes :
            CallStatus(b, code)
                => /\ getStatus(res[b])' = code
                   /\ \A name \in ValidNames :
                         getHeader(heap, res[b], name)' = getHeader(heap, res[b], name)

\* The claim as stated.
C4_LastWriteWinsVerbatim ==
    /\ FreshReads
    /\ [][\A b \in Builders :
            /\ StatusReflected(b)
            /\ Succeeded(b, "set") =>
                  \A a \in SetArgs :
                      CallSet(b, a[1], a[2]) => ReadsReflectWritten(b, <<a>>)
            /\ Succeeded(b, "headers") =>
                  \A map \in HeaderMaps :
                      CallHeaders(b, map) => ReadsReflectWritten(b, map)
            /\ Succeeded(b, "type") =>
                  \A mime \in HeaderValues :
                      CallType(b, mime)
                          => ReadsReflectWritten(b, << <<S_ContentType, mime>> >>)]_vars

\* C4 as amended: getHeader of a valid name returns the most recent value
\* written under that name in any letter case, with its leading and trailing
\* HTTP whitespace removed.
C4_LastWriteWins ==
    /\ FreshReads
    /\ [][\A b \in Builders :
            /\ StatusReflected(b)
            /\ Succeeded(b, "set") =>
                  \A a \in SetArgs :
                      CallSet(b, a[1], a[2]) => ReadsReflectTrimmed(b, <<a>>)
            /\ Succeeded(b, "headers") =>
                  \A map \in HeaderMaps :
                      CallHeaders(b, map) => ReadsReflectTrimmed(b, map)
            /\ Succeeded(b, "type") =>
                  \A mime \in HeaderValues :
                      CallType(b, mime)
                          => ReadsReflectTrimmed(b, << <<S_ContentType, mime>> >>)]_vars

\* A header written twice under two spellings, the second value padded.
C4_Witness ==
    \E b \in Builders :
        /\ call.b = b /\ call.op \in {"set", "headers"} /\ ~call.threw
        /\ ~isFinalized(res[b])
        /\ getStatus(res[b]) = 201
        /\ getHeader(heap, res[b], S_XA) = Got(S_w)
        /\ getHeader(heap, res[b], S_xa) = Got(S_w)

(***************************************************************************)
(* C5: the response a finalizing call returns has the builder's status,    *)
(* the builder's headers and the body that call set (none for finalize()). *)
(***************************************************************************)
\* Reading a response body back gives the BodyInit it was made from.
BodyIs(body, init) ==
    CASE init.kind = "undefined" -> body.null
      [] init.kind = "text" -> ~body.null /\ UTF8Decode(body.bytes) = init.text
      [] init.kind = "stream" -> ~body.null /\ body.stream = init.ref

BodySetBy(p) ==
    /\ BodyIs(p.body, res[p.by]._body)
    /\ p.op = "send" => BodyIs(p.body, p.args[1])
    /\ p.op = "stream" => BodyIs(p.body, StreamBody(p.args[1]))
    /\ p.op \in {"redirect", "finalize"} => p.body.null

Responses == {responses[i] : i \in 1..Len(responses)}

\* The claim as stated: the two header collections are equal.
C5_ResponseEqualsBuilder ==
    \A p \in Responses :
        /\ p.status = getStatus(res[p.by])
        /\ p.headers = heap[res[p.by]._headers]
        /\ BodySetBy(p)

\* C5 as amended: the response carries every header of the builder with the
\* same value and no other, except a Content-Type that the Response
\* constructor derives from the body (text/plain;charset=UTF-8 for a string)
\* when the builder holds none.
C5_ResponseFromBuilder ==
    \A p \in Responses :
        LET h == heap[res[p.by]._headers]
            ct == toLowerCase(S_ContentType)
            derived == ~p.body.null /\ p.body.type # <<>> /\ ct \notin DOMAIN h
        IN  /\ p.status = getStatus(res[p.by])
            /\ \A n \in DOMAIN h : n \in DOMAIN p.headers /\ p.headers[n] = h[n]
            /\ \A n \in DOMAIN p.headers \ DOMAIN h :
                  derived /\ n = ct /\ p.headers[n] = p.body.type
            /\ derived => ct \in DOMAIN p.headers
            /\ BodySetBy(p)

\* send of a text with a header and a status set before, no Content-Type.
C5_Witness ==
    \E p \in Responses :
        /\ p.op = "send"
        /\ p.status = 201
        /\ HeadersGet(p.headers, S_XA) = Got(S_v)
        /\ HeadersGet(p.headers, S_ContentType) = Got(S_textplain)
        /\ getHeader(heap, res[p.by], S_ContentType) = GotNull

(***************************************************************************)
(* C6: after a successful json(data) the Content-Type of the builder and   *)
(* of the response is exactly application/json, whatever was set before;   *)
(* the other headers and the status are kept.                              *)
(***************************************************************************)
C6_JsonForcesContentType ==
    [][\A b \in Builders :
          Succeeded(b, "json") =>
             LET p == responses'[Len(responses')]
             IN  /\ Len(responses') = Len(responses) + 1
                 /\ p.by = b
                 /\ \A name \in ValidNames :
                       IF SameName(name, S_ContentType)
                       THEN /\ getHeader(heap, res[b], name)' = Got(S_applicationjson)
                            /\ HeadersGet(p.headers, name) = Got(S_applicationjson)
                       ELSE /\ getHeader(heap, res[b], name)' = getHeader(heap, res[b], name)
                            /\ HeadersGet(p.headers, name) = getHeader(heap, res[b], name)
                 /\ getStatus(res[b])' = getStatus(res[b])
                 /\ p.status = getStatus(res[b])]_vars

C6_Witness ==
    \E p \in Responses :
        /\ p.op = "json" /\ call.op = "json" /\ call.b = p.by /\ ~call.threw
        /\ p.status = 201
        /\ HeadersGet(p.headers, S_XA) = Got(S_v)
        /\ HeadersGet(p.headers, S_contenttype) = Got(S_applicationjson)
        /\ getHeader(heap, res[p.by], S_contenttype) = Got(S_applicationjson)

(***************************************************************************)
(* C7: redirect(url, code) returns a response with status code, 302 when   *)
(* the code is omitted, whatever status was set before, with Location url  *)
(* in place of any earlier Location, and without a body; the builder is    *)
(* finalized.                                                              *)
(***************************************************************************)
RedirectStatus(p) ==
    /\ p.status = IF p.args[2] = Omitted THEN 302 ELSE p.args[2]
    /\ p.body.null
    /\ isFinalized(res[p.by])

\* The claim as stated: Location is url exactly.
C7_RedirectLocationVerbatim ==
    \A p \in Responses :
        p.op = "redirect" =>
            /\ RedirectStatus(p)
            /\ HeadersGet(p.headers, S_Location) = Got(p.args[1])

\* C7 as amended: Location is url without its leading and trailing HTTP
\* whitespace (url exactly when it has none).
C7_RedirectLocation ==
    \A p \in Responses :
        p.op = "redirect" =>
            /\ RedirectStatus(p)
            /\ HeadersGet(p.headers, S_Location) = Got(headerValueNormalize(p.args[1]))

\* A redirect without a code, of a padded url, after another status was set.
C7_Witness ==
    \E p \in Responses :
        /\ p.op = "redirect" /\ p.args = <<S_url_padded, Omitted>>
        /\ p.status = 302
        /\ nops >= 2
        /\ call.b = p.by

(***************************************************************************)
(* C8: the body of the response of stream(handle) is the very stream       *)
(* handle; two handles given to two builders give two different bodies.    *)
(***************************************************************************)
C8_StreamIdentity ==
    /\ \A p \in Responses :
          p.op = "stream" => ~p.body.null /\ p.body.stream = p.args[1]
    /\ \A p, q \in Responses :
          (p.op = "stream" /\ q.op = "stream" /\ p.by # q.by /\ p.args[1] # q.args[1])
              => p.body.stream # q.body.stream

C8_Witness ==
    \E p, q \in Responses :
        /\ p.op = "stream" /\ q.op = "stream"
        /\ p.by # q.by
        /\ p.args[1] # q.args[1]

(***************************************************************************)
(* C9: parsing the body of the response of json(data) as JSON gives a      *)
(* value equal to data.                                                    *)
(***************************************************************************)
Parsed(v) == [ok |-> TRUE, val |-> v]

\* The claim as stated: for every data.
C9_JsonRoundTripAny ==
    \A p \in Responses :
        p.op = "json" => ResponseJson(p.body) = Parsed(p.args[1])

\* The values JSON has a notation for: null, booleans, finite numbers other
\* than -0, strings, and arrays and plain objects of such values.
RECURSIVE JsonRepresentable(_)
JsonRepresentable(d) ==
    CASE d.t \in {"null", "boolean", "number", "string"} -> TRUE
      [] d.t = "array" ->
            \A i \in 1..Len(d.items) : JsonRepresentable(d.items[i])
      [] d.t = "object" ->
            \A i \in 1..Len(d.members) : JsonRepresentable(d.members[i].val)
      [] OTHER -> FALSE

\* C9 as amended: for every data that JSON has a notation for.
C9_JsonRoundTrip ==
    \A p \in Responses :
        (p.op = "json" /\ JsonRepresentable(p.args[1]))
            => ResponseJson(p.body) = Parsed(p.args[1])

\* Round trips of a string that needs escaping and of a nested object.
C9_Witness ==
    \E p, q \in Responses :
        /\ p.op = "json" /\ p.args[1] = JStr(S_quoted)
        /\ q.op = "json" /\ q.args[1].t = "object" /\ JsonRepresentable(q.args[1])
        /\ ResponseJson(p.body) = Parsed(p.args[1])
        /\ ResponseJson(q.body) = Parsed(q.args[1])

(***************************************************************************)
(* C10: set, append and delete on a collection returned by getHeaders()    *)
(* change neither what getHeader(name) returns for any name nor what a     *)
(* later getHeaders() returns, on a writable builder and on a finalized    *)
(* one.                                                                    *)
(***************************************************************************)
HeadersOps == {"Headers.set", "Headers.append", "Headers.delete"}

\* The content of the collection a getHeaders() call would return.
Copied(hp, r) == getHeaders(hp, r).hp[getHeaders(hp, r).ret]

C10_ReturnedHeadersIndependent ==
    [][(nops' = nops + 1 /\ call'.op \in HeadersOps) =>
          \A b \in Builders :
             /\ \A name \in HeaderNames :
                   getHeader(heap, res[b], name)' = getHeader(heap, res[b], name)
             /\ Copied(heap, res[b])' = Copied(heap, res[b])
             /\ View(b)' = View(b)]_vars

\* A collection returned by a finalized builder that has been changed.
C10_Witness ==
    \E c \in handed :
        /\ isFinalized(res[c.of])
        /\ call.op \in HeadersOps /\ ~call.threw
        /\ heap[c.id] # heap[res[c.of]._headers]

(***************************************************************************)
(* C20: a builder that is not finalized has no body; so the body is set by *)
(* at most one finalizing call, and redirect never clears a body that was  *)
(* set.                                                                    *)
(***************************************************************************)
FinalizingOps == {"send", "json", "stream", "redirect", "finalize"}

C20_WritableHasNoBody ==
    /\ [](\A b \in Builders : ~isFinalized(res[b]) => res[b]._body = Undefined)
    /\ [][\A b \in Builders :
            /\ (CalledOn(b) /\ res[b]._body # Undefined) => res[b]._body' = res[b]._body
            /\ res[b]._body' # res[b]._body
                  => CalledOn(b) /\ call'.op \in {"send", "json", "stream"}]_vars

\* A builder still writable after failed calls, next to one that holds a body.
C20_Witness ==
    \E b, c \in Builders :
        /\ ~isFinalized(res[b]) /\ res[b]._body = Undefined
        /\ call.b = b /\ call.op \in {"json", "redirect"} /\ call.threw
        /\ isFinalized(res[c]) /\ res[c]._body # Undefined

(***************************************************************************)
(* C19: a builder returns at most one response: over every order of whole  *)
(* calls by any number of callers, once a finalizing call has returned a   *)
(* response every later finalizing call on that builder fails with the     *)
(* 'already finalized' error and returns none.  (The methods are           *)
(* synchronous, so callers interleave at whole calls, which Next does.)    *)
(***************************************************************************)
ResponsesOf(b) == {i \in 1..Len(responses) : responses[i].by = b}

C19_AtMostOneResponse ==
    /\ [](\A b \in Builders : Cardinality(ResponsesOf(b)) <= 1)
    /\ [][\A b \in Builders :
            (ResponsesOf(b) # {} /\ CalledOn(b) /\ call'.op \in FinalizingOps)
                => /\ call'.threw
                   /\ call'.err = AlreadyFinalized
                   /\ responses' = responses]_vars

\* A finalizing call that fails on a builder whose response was returned.
C19_Witness ==
    \E b \in Builders :
        /\ Cardinality(ResponsesOf(b)) = 1
        /\ call.b = b /\ call.op \in FinalizingOps
        /\ call.threw /\ call.err = AlreadyFinalized
        /\ nops = 3

(***************************************************************************)
(* C18: only a finalizing call takes a builder from writable to finalized; *)
(* a successful status(code) leaves headers, body and flag as they were; a *)
(* successful set, headers or type leaves the status, the body, the flag   *)
(* and every header it does not name as they were.                         *)
(***************************************************************************)
\* Every header that writes does not name is the same in h and h2.
OthersKept(h, h2, writes) ==
    \A k \in DOMAIN h \cup DOMAIN h2 :
        (\A i \in 1..Len(writes) : ~SameName(writes[i][1], k))
            => k \in DOMAIN h /\ k \in DOMAIN h2 /\ h[k] = h2[k]

HeaderWriteFrame(b, writes) ==
    /\ View(b).status' = View(b).status
    /\ View(b).body' = View(b).body
    /\ View(b).finalized' = View(b).finalized
    /\ OthersKept(View(b).headers, View(b).headers', writes)

C18_MutatorsChangeOwnField ==
    [][\A b \in Builders :
          /\ (~isFinalized(res[b]) /\ isFinalized(res[b])')
                => CalledOn(b) /\ call'.op \in FinalizingOps
          /\ Succeeded(b, "status") =>
                /\ View(b).headers' = View(b).headers
                /\ View(b).body' = View(b).body
                /\ View(b).finalized' = View(b).finalized
          /\ Succeeded(b, "set") =>
                \A a \in SetArgs :
                    CallSet(b, a[1], a[2]) => HeaderWriteFrame(b, <<a>>)
          /\ Succeeded(b, "headers") =>
                \A map \in HeaderMaps :
                    CallHeaders(b, map) => HeaderWriteFrame(b, map)
          /\ Succeeded(b, "type") =>
                \A mime \in HeaderValues :
                    CallType(b, mime)
                        => HeaderWriteFrame(b, << <<S_ContentType, mime>> >>)]_vars

\* A set that changed one header of a builder holding another and a status.
C18_Witness ==
    \E b \in Builders :
        /\ call.b = b /\ call.op = "set" /\ ~call.threw
        /\ getStatus(res[b]) = 201
        /\ getHeader(heap, res[b], S_XA) = Got(S_v)
        /\ getHeader(heap, res[b], S_Location) = Got(S_w)
        /\ ~isFinalized(res[b])

(***************************************************************************)
(* C17: headers(map) leaves the builder as the calls set(name, value), one *)
(* for each entry of map in its order, leave it, made until one of them    *)
(* throws; of two entries that name the same header in different letter    *)
(* case the later one is held; on a finalized builder headers(map) and     *)
(* each set fail and nothing is applied.                                   *)
(***************************************************************************)
\* The outcome of calling set for each entry in turn; a throw ends the calls.
RECURSIVE SetEach(_, _, _)
SetEach(hp, r, entries) ==
    IF entries = <<>> THEN Returned(hp, r)
    ELSE LET o == set(hp, r, entries[1][1], entries[1][2])
         IN  IF o.threw THEN o ELSE SetEach(o.hp, o.r, Tail(entries))

HeadersAsSets(b, map) ==
    LET o == SetEach(heap, res[b], map)
        last(name) == map[LastWrite(map, name)]
    IN  /\ res'[b] = o.r
        /\ heap' = o.hp
        /\ map # <<>> => (call'.threw = o.threw /\ call'.err = o.err)
        /\ ~call'.threw =>
              \A name \in ValidNames :
                  LastWrite(map, name) # 0 =>
                      getHeader(heap, res[b], name)' =
                         getHeader(set(heap, res[b], last(name)[1], last(name)[2]).hp,
                                   res[b], name)
        /\ isFinalized(res[b]) =>
              /\ call'.threw /\ call'.err = AlreadyFinalized
              /\ View(b)' = View(b)
              /\ \A i \in 1..Len(map) :
                    set(heap, res[b], map[i][1], map[i][2]).err = AlreadyFinalized

ChainableOps == {"status", "set", "headers", "type"}

\* b.status(c).set(n, v).type(m): each further call is made on what the call
\* before it returned, and fails when that is not a builder.
ChainStatusSetType(hp, r, c, n, v, m) ==
    LET o1 == status(hp, r, c)
        o2 == IF o1.threw THEN o1
              ELSE IF o1.ret # "this" THEN Threw(o1.hp, o1.r, "TypeError")
              ELSE set(o1.hp, o1.r, n, v)
        o3 == IF o2.threw THEN o2
              ELSE IF o2.ret # "this" THEN Threw(o2.hp, o2.r, "TypeError")
              ELSE type(o2.hp, o2.r, m)
    IN  o3

\* b.status(c); b.set(n, v); b.type(m): a throw ends the calls.
StatusSetTypeSeparately(hp, r, c, n, v, m) ==
    LET o1 == status(hp, r, c)
        o2 == IF o1.threw THEN o1 ELSE set(o1.hp, o1.r, n, v)
        o3 == IF o2.threw THEN o2 ELSE type(o2.hp, o2.r, m)
    IN  o3

\* The arguments (c, n, v, m) of the chain: all accepted, n rejected,
\* v rejected, m rejected.
ChainArgs ==
    { <<201, S_XA, S_v, S_w_padded>>, <<99, S_badname, S_v, S_v>>,
      <<204, S_XA, S_a_nl_b, S_v>>, <<201, S_xa, S_w_padded, S_a_nl_b>> }

C13_ChainableReturnThis ==
    /\ [](\A b \in Builders, a \in ChainArgs :
            ChainStatusSetType(heap, res[b], a[1], a[2], a[3], a[4])
               = StatusSetTypeSeparately(heap, res[b], a[1], a[2], a[3], a[4]))
    /\ [][\A b \in Builders :
            (CalledOn(b) /\ call'.op \in ChainableOps /\ ~call'.threw)
                => /\ call'.ret = b
                   /\ DOMAIN res' = DOMAIN res]_vars

\* The state a chain on a new builder ends in, reached by the separate calls.
C13_Witness ==
    \E b \in Builders :
        /\ call.b = b /\ call.op = "type" /\ call.ret = b
        /\ View(b) = [status |-> 201,
                      headers |-> ChainStatusSetType(
                                    [i \in Builders |-> EmptyHeaders],
                                    NewResAccumulator(b), 201, S_XA, S_v, S_w_padded
                                  ).hp[b],
                      body |-> Undefined,
                      finalized |-> FALSE]
        /\ DOMAIN View(b).headers = {S_xa, S_contenttype}

(***************************************************************************)
(* C11: getStatus, getHeader, getHeaders and isFinalized are reads allowed *)
(* in the writable and in the finalized state: they leave the status, the  *)
(* headers, the body and the finalized flag of every builder unchanged,    *)
(* and they never fail.  As stated the last part does not hold: getHeader  *)
(* passes the name to Headers.get, which throws for a name that is not a   *)
(* valid header name.                                                      *)
(***************************************************************************)
ReadOps == {"getStatus", "getHeader", "getHeaders", "isFinalized"}

\* This step is a read of builder b.
ReadOn(b) == nops' = nops + 1 /\ call'.b = b /\ call'.op \in ReadOps

C11_ReadsNeverFail ==
    [][\A b \in DOMAIN res :
            ReadOn(b) => /\ ~call'.threw
                         /\ View(b)' = View(b)]_vars

\* C11 as amended: getStatus, getHeaders and isFinalized never fail, and
\* getHeader fails exactly when its name is not a valid header name, in the
\* writable and in the finalized state alike; all four leave every builder's
\* status, headers, body and finalized flag unchanged.
C11_ReadsFailOnlyOnInvalidName ==
    [][\A b \in DOMAIN res :
            ReadOn(b) => /\ call'.threw <=> /\ call'.op = "getHeader"
                                            /\ ~isValidHeaderName(got'.arg)
                         /\ call'.threw => call'.err = "TypeError"
                         /\ \A c \in DOMAIN res : View(c)' = View(c)
                         /\ DOMAIN res' = DOMAIN res]_vars

\* A header read from a finalized builder.
C11_Witness ==
    \E b \in DOMAIN res :
        /\ call.op = "getHeader" /\ call.b = b /\ ~call.threw
        /\ isFinalized(res[b])
        /\ got.arg = S_ContentType /\ ~got.null /\ got.str = S_applicationjson

(***************************************************************************)
(* C12: a builder just constructed, by new ResAccumulator() or as the res  *)
(* of createContext(raw, params), has status 200, no headers, no body and  *)
(* is not finalized; the req of createContext(raw, params) has the given   *)
(* request as its raw and the given mapping as its params, an empty        *)
(* mapping when params is omitted.                                         *)
(***************************************************************************)
JustConstructed ==
    [status |-> 200, headers |-> EmptyHeaders, body |-> Undefined,
     finalized |-> FALSE]

C12_AfterConstruction ==
    [][/\ call'.op = "new ResAccumulator" /\ nops' = nops + 1
            => \A b \in {Len(res) + 1} : View(b)' = JustConstructed
       /\ call'.op = "createContext" /\ nops' = nops + 1
            => \A raw \in DOMAIN Requests, params \in DOMAIN objs \cup {Omitted} :
                  CallCreateContext(raw, params)
                    => LET c == ctx'[Len(ctx')]
                       IN  /\ c.res = Len(res) + 1
                           /\ \A b \in {Len(res) + 1} :
                                  View(b)' = JustConstructed
                           /\ c.req.raw = raw
                           /\ params # Omitted
                                => /\ c.req.params = params
                                   /\ objs'[c.req.params] = objs[params]
                           /\ params = Omitted
                                => objs'[c.req.params] = EmptyParams]_vars

\* createContext(request, {id: '123'}) after another builder was written to.
C12_Witness ==
    /\ call.op = "createContext" /\ call.b = 2
    /\ View(1).status = 201
    /\ View(2) = JustConstructed
    /\ objs[ctx[Len(ctx)].req.params] = [k \in {S_id} |-> S_123]
    /\ ctx[Len(ctx)].req.raw = 2

(***************************************************************************)
(* C14: req.get(name) never throws, returns the value of the header the    *)
(* raw request carries under that name and null when it carries none, and  *)
(* returns the same for every letter-casing of the name.                   *)
(***************************************************************************)
\* This step is a call of op on the request of context i.
AskedOf(i, op) == nops' = nops + 1 /\ call'.b = i /\ call'.op = op

C14_GetNeverThrows ==
    [][\A i \in DOMAIN ctx :
            AskedOf(i, "req.get")
                => LET h == Requests[ctx[i].req.raw].headers
                       k == toLowerCase(got'.arg)
                   IN  /\ ~call'.threw
                       /\ k \in DOMAIN h => ~got'.null /\ got'.str = h[k]
                       /\ k \notin DOMAIN h => got'.null
                       /\ \A m \in RequestHeaderNames :
                             SameName(m, got'.arg)
                                => RequestGet(ctx[i].req, m)
                                     = RequestGet(ctx[i].req, got'.arg)]_vars

(***************************************************************************)
(* C15: the request made by createRequestLike(raw, params) has             *)
(* originalUrl equal to raw.url; protocol, hostname and path are the       *)
(* scheme without its ':', the host name and the path without the query    *)
(* string, that is, raw.url reads protocol "://" hostname, then a port if  *)
(* any, then path, then a query or a fragment if any; raw and params are   *)
(* the very objects given, so that what the caller assigns to its params   *)
(* object afterwards is seen through req.params; body and rawBody are      *)
(* undefined.                                                              *)
(***************************************************************************)
S_http == <<104, 116, 116, 112>>
S_hosttest == <<104, 111, 115, 116, 46, 116, 101, 115, 116>>
S_a_b == <<47, 97, 47, 98>>

Has(s, cs) == \E i \in 1..Len(s) : s[i] \in cs

\* url is protocol "://" hostname [":" digits] path [("?" | "#") ...].
UrlReads(url, protocol, hostname, path) ==
    LET pre == protocol \o <<58, 47, 47>> \o hostname
    IN  /\ ~Has(protocol, {58}) /\ protocol # <<>>
        /\ ~Has(hostname, {47, 58, 63, 35, 64}) /\ hostname # <<>>
        /\ ~Has(path, {63, 35}) /\ path # <<>> /\ path[1] = 47
        /\ HasPrefix(url, pre)
        /\ \E p \in 0..(Len(url) - Len(pre) - Len(path)) :
              LET port == SubSeq(url, Len(pre) + 1, Len(pre) + p)
                  after == Drop(url, Len(pre) + p + Len(path))
              IN  /\ SubSeq(url, Len(pre) + p + 1, Len(pre) + p + Len(path)) = path
                  /\ port # <<>> => /\ port[1] = 58
                                    /\ \A j \in 2..Len(port) : port[j] \in 48..57
                  /\ after # <<>> => after[1] \in {63, 35}

C15_RequestFields ==
    /\ [](\A i \in DOMAIN ctx :
            LET req == ctx[i].req
            IN  /\ req.originalUrl = Requests[req.raw].url
                /\ UrlReads(req.originalUrl, req.protocol, req.hostname, req.path)
                /\ req.params \in DOMAIN objs
                /\ req.body = Undefined /\ req.rawBody = Undefined)
    /\ [][/\ call'.op = "createContext" /\ nops' = nops + 1
               => \A raw \in DOMAIN Requests, params \in DOMAIN objs :
                     CallCreateContext(raw, params)
                        => /\ ctx'[Len(ctx')].req.raw = raw
                           /\ ctx'[Len(ctx')].req.params = params
          /\ call'.op = "params[name] = value" /\ nops' = nops + 1
               => \A p \in DOMAIN objs :
                     ParamsAssign(p, S_id, S_v)
                        => \A i \in DOMAIN ctx :
                              ctx[i].req.params = p
                                 => objs'[ctx'[i].req.params][S_id] = S_v]_vars

\* The request of http://host.test:8080/a/b?...#top made with the caller's
\* params object, after the caller assigned to that object.
C15_Witness ==
    \E i \in DOMAIN ctx :
        /\ ctx[i].req.raw = 3 /\ ctx[i].req.params = 1
        /\ ctx[i].req.protocol = S_http
        /\ ctx[i].req.hostname = S_hosttest
        /\ ctx[i].req.path = S_a_b
        /\ ctx[i].req.originalUrl = S_url_tags
        /\ call.op = "params[name] = value"
        /\ objs[ctx[i].req.params][S_id] = S_v

(***************************************************************************)
(* C16: req.query holds the pairs of the URL's query string in their order *)
(* of appearance: writing the pairs out again gives the query string; for  *)
(* every key getAll(key) is the list of the values of the pairs with that  *)
(* key, in order, get(key) is the first of them and null when there is     *)
(* none, and has(key) tells whether there is one.                          *)
(***************************************************************************)
S_js == <<106, 115>>
S_node == <<110, 111, 100, 101>>
S_a_b_bang == <<97, 32, 98, 33>>

\* The application/x-www-form-urlencoded serialisation of a list of pairs.
HexChar(n) == IF n < 10 THEN 48 + n ELSE 55 + n

RECURSIVE UrlencodedBytes(_)
UrlencodedBytes(bs) ==
    IF bs = <<>> THEN <<>>
    ELSE (IF bs[1] \in (48..57) \cup (65..90) \cup (97..122) \cup {42, 45, 46, 95}
          THEN <<bs[1]>>
          ELSE IF bs[1] = 32 THEN <<43>>
          ELSE <<37, HexChar(bs[1] \div 16), HexChar(bs[1] % 16)>>)
            \o UrlencodedBytes(Tail(bs))

RECURSIVE UrlencodedSerialize(_)
UrlencodedSerialize(list) ==
    IF list = <<>> THEN <<>>
    ELSE UrlencodedBytes(UTF8Encode(list[1].name)) \o <<61>>
            \o UrlencodedBytes(UTF8Encode(list[1].value))
            \o (IF Len(list) > 1 THEN <<38>> ELSE <<>>)
            \o UrlencodedSerialize(Tail(list))

\* The query string of url, between '?' and '#', without its empty pairs and
\* with '=' after a name that has none.
RECURSIVE Joined(_)
Joined(segments) ==
    IF segments = <<>> THEN <<>>
    ELSE segments[1] \o (IF Has(segments[1], {61}) THEN <<>> ELSE <<61>>)
            \o (IF Len(segments) > 1 THEN <<38>> ELSE <<>>)
            \o Joined(Tail(segments))

QueryString(url) ==
    LET from == FirstOf(url, {63})
        upto == FirstOf(url, {35})
    IN  IF from < upto THEN SubSeq(url, from + 1, upto - 1) ELSE <<>>

\* The positions of the pairs of list named key, and the k-th of them.
Positions(list, key) == {j \in 1..Len(list) : list[j].name = key}

Kth(list, key, k) ==
    CHOOSE j \in Positions(list, key) :
        Cardinality({x \in Positions(list, key) : x <= j}) = k

C16_QueryIsOrderedMultiMap ==
    /\ [](\A i \in DOMAIN ctx :
            UrlencodedSerialize(ctx[i].req.query)
                = Joined(SelectSeq(Split(QueryString(ctx[i].req.originalUrl), 38),
                                   NotEmpty)))
    /\ [][\A i \in DOMAIN ctx :
            LET list == ctx[i].req.query
                at == Positions(list, got'.arg)
            IN  /\ AskedOf(i, "query.getAll")
                    => /\ ~call'.threw
                       /\ Len(got'.list) = Cardinality(at)
                       /\ \A k \in 1..Len(got'.list) :
                              got'.list[k] = list[Kth(list, got'.arg, k)].value
                /\ AskedOf(i, "query.get")
                    => /\ ~call'.threw
                       /\ got'.null <=> at = {}
                       /\ at # {} => got'.str = list[Kth(list, got'.arg, 1)].value
                /\ AskedOf(i, "query.has")
                    => /\ ~call'.threw
                       /\ got'.bool <=> at # {}]_vars

\* getAll('tag') on ...?tag=js&x=1&tag=node&&tag=a+b%21&flag#top
C16_Witness ==
    \E i \in DOMAIN ctx :
        /\ call.op = "query.getAll" /\ call.b = i
        /\ ctx[i].req.originalUrl = S_url_tags
        /\ got.arg = S_tag
        /\ got.list = <<S_js, S_node, S_a_b_bang>>

(***************************************************************************)
(* C21: the builder of every createContext call is a new one that shares   *)
(* nothing with another: the builders of two contexts, made from the same  *)
(* request or not, have each its own Headers collection, and no call on    *)
(* one of them, finalizing ones and failing ones included, and no          *)
(* createContext call changes the status, the headers, the body or the     *)
(* finalized flag of the other.                                            *)
(***************************************************************************)
\* This step is a call of a method, mutator or read, on builder b.
AnyCallOn(b) ==
    nops' = nops + 1 /\ call'.b = b /\ call'.op \in BuilderOps \cup ReadOps

C21_ContextsShareNoState ==
    /\ [](\A i, j \in DOMAIN ctx :
            i # j => /\ ctx[i].res # ctx[j].res
                     /\ res[ctx[i].res]._headers # res[ctx[j].res]._headers)
    /\ [][\A i, j \in DOMAIN ctx :
            /\ (i # j /\ AnyCallOn(ctx[i].res))
                  => \A c \in {ctx[j].res} : View(c)' = View(c)
            /\ call'.op = "createContext" /\ nops' = nops + 1
                  => /\ \A c \in {ctx[i].res} : View(c)' = View(c)
                     /\ ctx'[i] = ctx[i]
                     /\ ctx'[Len(ctx')].res \notin DOMAIN res]_vars

\* Two contexts made from the same request, the first written to and
\* finalized, the second as it was made.
C21_Witness ==
    /\ Len(ctx) = 2
    /\ ctx[1].req.raw = ctx[2].req.raw
    /\ call.b = ctx[1].res /\ call.op = "json" /\ ~call.threw
    /\ isFinalized(res[ctx[1].res])
    /\ View(ctx[1].res).headers # EmptyHeaders
    /\ View(ctx[2].res) = JustConstructed

====
